---------------------------- MODULE Spec2Model ----------------------------
(***************************************************************************)
(* A model of pretty-logging (src/src/lib.rs): the Logger sink, its mpsc   *)
(* channel with the dedicated consumer thread, init() with the OnceLock    *)
(* singleton, the log crate's global registration, and the panic hook.     *)
(*                                                                         *)
(* Strings the code inspects (module names, targets, level names) are      *)
(* sequences of one-character strings, so that starts_with, format! and    *)
(* the padding are computed and not assumed.                               *)
(***************************************************************************)
EXTENDS Naturals, Sequences, FiniteSets

VARIABLES
    pc,          \* position of every application thread
    args,        \* init()'s arguments (filter, modules) of the call in progress
    mine,        \* the channel of the Logger the thread's Logger::new built
    LOGGER,      \* the OnceLock: <<>> while unset, <<logger>> once set
    registered,  \* the log crate's global logger: TRUE once set_logger succeeded
    maxLevel,    \* the log crate's global maximum level
    hook,        \* the installed panic hook: "Default" or the filter it captured
    channels,    \* one per Logger::new: queue, sender alive, receiver alive
    consumers,   \* one per Logger::new: the spawned thread's position and entry
    stdoutLock,  \* the consumer holding the stdout lock, 0 when free
    stderrLock,  \* the consumer holding the stderr lock, 0 when free
    stdout,      \* lines written to the standard output
    stderr,      \* lines written to the error output
    process,     \* "running", "exited" (main ended) or "aborted"
    sent,        \* history: the entries enqueued, in the order the sends completed
    taken,       \* history: the entries the consumers wrote, in order, with the outcome
    last         \* history: the last call made by an application thread

vars == <<pc, args, mine, LOGGER, registered, maxLevel, hook, channels,
          consumers, stdoutLock, stderrLock, stdout, stderr, process,
          sent, taken, last>>

(***************************************************************************)
(* Bounds of the model.                                                    *)
(***************************************************************************)
MaxSent == 2         \* entries enqueued in one run
MaxInits == 2        \* calls of init() in one run
MaxModules == 2      \* module names in a filter list (SpecFilter)
MaxNameLen == 2      \* characters in a module name (SpecFilter)
MaxTargetLen == 7    \* characters in a target (SpecFilter)
MaxLevelLen == 6     \* characters in an unrecognized level name (SpecLevel)

(***************************************************************************)
(* Inputs.                                                                 *)
(***************************************************************************)
Threads == {"main", "worker"}
Levels == {"Error", "Warn", "Info", "Debug", "Trace"}
Alphabet == {"a", ":"}

RECURSIVE StringsUpTo(_)
StringsUpTo(n) ==
    IF n = 0 THEN {<<>>}
    ELSE LET shorter == StringsUpTo(n - 1)
         IN  shorter \cup {Append(s, ch) : s \in shorter, ch \in Alphabet}

RECURSIVE ListsUpTo(_, _)
ListsUpTo(S, n) ==
    IF n = 0 THEN {<<>>}
    ELSE LET shorter == ListsUpTo(S, n - 1)
         IN  shorter \cup {Append(l, x) : l \in shorter, x \in S}

app == <<"a">>
app_db == <<"a", ":", ":", "b">>
apple == <<"a", "b">>
other == <<"b">>

\* the calls the pipeline specification makes: two threads, racing
PipeFilters == {"Off", "Info"}
PipeModules == {<<app>>, <<other>>}
PipeTargets == {app_db}
PipeLevels == {"Error", "Info"}
PipeMessage(t) == IF t = "main" THEN "from main" ELSE "from worker"
PipePayloads == {[kind |-> "str", text |-> "boom"]}

\* the calls the sink specification makes: one thread, every kind of call
SinkFilters == {"Off", "Error", "Info", "Trace"}
SinkModules == {<<>>, <<other>>, <<other, app>>}
SinkTargets == {app, app_db, apple}
SinkMessages == {"slow query", "x"}
SinkPayloads == {[kind |-> "str", text |-> "boom"],
                 [kind |-> "String", text |-> "bang"],
                 [kind |-> "other", text |-> "n/a"]}

\* the calls the filter specification makes: every list and target in the bounds
WideModules == ListsUpTo(StringsUpTo(MaxNameLen), MaxModules)
WideTargets == StringsUpTo(MaxTargetLen)

(***************************************************************************)
(* The log crate's Level and LevelFilter (record.level().as_str(), and the *)
(* order the log macros compare with the maximum level).                   *)
(***************************************************************************)
as_str(level) ==
    CASE level = "Error" -> <<"E", "R", "R", "O", "R">>
      [] level = "Warn"  -> <<"W", "A", "R", "N">>
      [] level = "Info"  -> <<"I", "N", "F", "O">>
      [] level = "Debug" -> <<"D", "E", "B", "U", "G">>
      [] level = "Trace" -> <<"T", "R", "A", "C", "E">>

LevelRank(l) ==
    CASE l = "Off"   -> 0
      [] l = "Error" -> 1
      [] l = "Warn"  -> 2
      [] l = "Info"  -> 3
      [] l = "Debug" -> 4
      [] l = "Trace" -> 5

PANIC == <<"P", "A", "N", "I", "C">>

(***************************************************************************)
(* impl From<Level> for OutputChannel                                      *)
(***************************************************************************)
OutputChannelFrom(level) ==
    IF level = "Error" THEN "Error" ELSE "Standard"

(***************************************************************************)
(* Logger::enabled: the loop over the module list, with str::starts_with   *)
(* and format!("{module}::") computed on the characters.                   *)
(***************************************************************************)
starts_with(s, prefix) ==
    /\ Len(prefix) <= Len(s)
    /\ SubSeq(s, 1, Len(prefix)) = prefix

\* enabled_from testing the prefix alone, without the "::" after it
RECURSIVE enabled_from_bare(_, _, _)
enabled_from_bare(modules, i, target) ==
    IF i > Len(modules) THEN FALSE
    ELSE IF \/ target = modules[i]
            \/ starts_with(target, modules[i])
         THEN TRUE
         ELSE enabled_from_bare(modules, i + 1, target)

RECURSIVE enabled_from(_, _, _)
enabled_from(modules, i, target) ==
    IF i > Len(modules) THEN FALSE
    ELSE IF \/ target = modules[i]
            \/ starts_with(target, modules[i] \o <<":", ":">>)
         THEN TRUE
         ELSE enabled_from(modules, i + 1, target)

enabled(modules, target) ==
    IF modules = <<>> THEN TRUE ELSE enabled_from(modules, 1, target)

(***************************************************************************)
(* get_formatted_level: "[{level}]" padded on the right to 7 characters    *)
(* ({string:<7} never truncates), then styled by the level name.           *)
(***************************************************************************)
LevelWidth == 7

RECURSIVE Spaces(_)
Spaces(n) == IF n = 0 THEN <<>> ELSE <<" ">> \o Spaces(n - 1)

\* PadRight aligning to the right ({string:>7}): the spaces come first
PadRight_left(s, width) ==
    IF Len(s) >= width THEN s ELSE Spaces(width - Len(s)) \o s

PadRight(s, width) ==
    IF Len(s) >= width THEN s ELSE s \o Spaces(width - Len(s))

get_formatted_level(level) ==
    LET string == PadRight(<<"[">> \o level \o <<"]">>, LevelWidth)
    IN  [text  |-> string,
         style |-> CASE level = as_str("Trace") -> "dimmed"
                     [] level = as_str("Debug") -> "white"
                     [] level = as_str("Info")  -> "blue"
                     [] level = as_str("Warn")  -> "yellow"
                     [] level = as_str("Error") \/ level = PANIC -> "red bold"
                     [] OTHER -> "red bold"]

\* get_formatted_timestamp: the clock's reading, dimmed; no claim reads its digits
get_formatted_timestamp == [text |-> "dd/mm/yyyy at hh:mm:ss.ss", style |-> "dimmed"]

\* format!("{} {} {}", timestamp, level tag, message)
Line(tag, msg) == [ts |-> get_formatted_timestamp, tag |-> tag, msg |-> msg]

(***************************************************************************)
(* The state after process start: nothing initialised, the log crate's     *)
(* maximum level at its default Off, the runtime's default panic hook.     *)
(***************************************************************************)
NoArgs == [filter |-> "Off", modules |-> <<>>]
NoCall == [op |-> "none"]

Init ==
    /\ pc = [t \in Threads |-> "idle"]
    /\ args = [t \in Threads |-> NoArgs]
    /\ mine = [t \in Threads |-> 0]
    /\ LOGGER = <<>>
    /\ registered = FALSE
    /\ maxLevel = "Off"
    /\ hook = "Default"
    /\ channels = <<>>
    /\ consumers = <<>>
    /\ stdoutLock = 0
    /\ stderrLock = 0
    /\ stdout = <<>>
    /\ stderr = <<>>
    /\ process = "running"
    /\ sent = <<>>
    /\ taken = <<>>
    /\ last = NoCall

(***************************************************************************)
(* Sender::send((output, line)) on channel c, with .ok() on the result: it *)
(* fails, and the entry is dropped, only when the receiver is gone.  The   *)
(* entry carries the number of its enqueue (id), which no code reads.      *)
(***************************************************************************)
Entry(output, line) == [output |-> output, line |-> line, id |-> Len(sent) + 1]

\* Send on a bounded channel (sync_channel(1)): it waits while the queue is full
Send_bounded(c, output, line) ==
    IF channels[c].receiver
    THEN /\ Len(channels[c].queue) < 1
         /\ channels' = [channels EXCEPT ![c].queue = Append(@, Entry(output, line))]
         /\ sent' = Append(sent, Entry(output, line))
    ELSE UNCHANGED <<channels, sent>>

Send(c, output, line) ==
    IF channels[c].receiver
    THEN /\ channels' = [channels EXCEPT ![c].queue = Append(@, Entry(output, line))]
         /\ sent' = Append(sent, Entry(output, line))
    ELSE UNCHANGED <<channels, sent>>

(***************************************************************************)
(* The closure given to panic::set_hook, and the hook in place before it.  *)
(* The runtime's default hook prints to stderr itself, outside the         *)
(* pipeline (and may wait for the stderr lock): it enqueues nothing.       *)
(***************************************************************************)
PayloadMessage(payload) ==
    IF payload.kind = "str" THEN payload.text
    ELSE IF payload.kind = "String" THEN payload.text
    ELSE "A panic occurred! Exitting..."

\* RunHook without the test of the threshold
RunHook_unconditional(payload) ==
    IF hook = "Default"
    THEN UNCHANGED <<channels, sent, process>>
    ELSE IF LOGGER = <<>>
         THEN /\ process' = "aborted"
              /\ UNCHANGED <<channels, sent>>
         ELSE /\ Send(LOGGER[1].sender, "Error",
                      Line(get_formatted_level(PANIC), PayloadMessage(payload)))
              /\ UNCHANGED process

RunHook(payload) ==
    IF hook = "Default" \/ hook = "Off"
    THEN UNCHANGED <<channels, sent, process>>
    ELSE IF LOGGER = <<>>
         THEN /\ process' = "aborted"    \* LOGGER.get().unwrap() panics in the hook
              /\ UNCHANGED <<channels, sent>>
         ELSE /\ Send(LOGGER[1].sender, "Error",
                      Line(get_formatted_level(PANIC), PayloadMessage(payload)))
              /\ UNCHANGED process

(***************************************************************************)
(* init(filter, modules), statement by statement.                          *)
(***************************************************************************)
\* Logger::new(modules): the channel is created and the consumer spawned
\* before LOGGER.set is tried.
\* LoggerNew in an init() that installed the panic hook as its first statement
LoggerNew_hook_first(t, filter, modules) ==
    /\ process = "running"
    /\ pc[t] = "idle"
    /\ Len(channels) < MaxInits
    /\ hook' = filter
    /\ channels' = Append(channels, [queue |-> <<>>, sender |-> TRUE, receiver |-> TRUE])
    /\ consumers' = Append(consumers, [pc |-> "lock_out", cur |-> <<>>])
    /\ mine' = [mine EXCEPT ![t] = Len(channels) + 1]
    /\ args' = [args EXCEPT ![t] = [filter |-> filter, modules |-> modules]]
    /\ pc' = [pc EXCEPT ![t] = "set"]
    /\ last' = [op |-> "init", filter |-> filter, modules |-> modules]
    /\ UNCHANGED <<LOGGER, registered, maxLevel, stdoutLock, stderrLock,
                   stdout, stderr, process, sent, taken>>

LoggerNew(t, filter, modules) ==
    /\ process = "running"
    /\ pc[t] = "idle"
    /\ Len(channels) < MaxInits
    /\ channels' = Append(channels, [queue |-> <<>>, sender |-> TRUE, receiver |-> TRUE])
    /\ consumers' = Append(consumers, [pc |-> "lock_out", cur |-> <<>>])
    /\ mine' = [mine EXCEPT ![t] = Len(channels) + 1]
    /\ args' = [args EXCEPT ![t] = [filter |-> filter, modules |-> modules]]
    /\ pc' = [pc EXCEPT ![t] = "set"]
    /\ last' = [op |-> "init", filter |-> filter, modules |-> modules]
    /\ UNCHANGED <<LOGGER, registered, maxLevel, hook, stdoutLock, stderrLock,
                   stdout, stderr, process, sent, taken>>

\* LOGGER.set(logger).ok(): the first call stores its Logger; a later call
\* gets its Logger back and drops it, which drops that channel's only Sender.
OnceLockSet(t) ==
    /\ process = "running"
    /\ pc[t] = "set"
    /\ IF LOGGER = <<>>
       THEN /\ LOGGER' = <<[modules |-> args[t].modules, sender |-> mine[t]]>>
            /\ UNCHANGED channels
       ELSE /\ channels' = [channels EXCEPT ![mine[t]].sender = FALSE]
            /\ UNCHANGED LOGGER
    /\ pc' = [pc EXCEPT ![t] = "set_logger"]
    /\ mine' = [mine EXCEPT ![t] = 0]
    /\ UNCHANGED <<args, registered, maxLevel, hook, consumers, stdoutLock,
                   stderrLock, stdout, stderr, process, sent, taken, last>>

\* log::set_logger(LOGGER.get().unwrap()) ... .unwrap(): the log crate
\* accepts one logger; a later call gets Err(SetLoggerError) and the unwrap
\* panics on the calling thread, which runs the installed panic hook.
SetLoggerError == [kind |-> "String", text |-> "SetLoggerError(())"]

\* SetLogger as a registry that takes every logger offered would do it.
SetLogger_again(t) ==
    /\ process = "running"
    /\ pc[t] = "set_logger"
    /\ registered' = TRUE
    /\ pc' = [pc EXCEPT ![t] = "set_max_level"]
    /\ UNCHANGED <<args, mine, LOGGER, maxLevel, hook, channels, consumers,
                   stdoutLock, stderrLock, stdout, stderr, process, sent, taken, last>>

SetLogger(t) ==
    /\ process = "running"
    /\ pc[t] = "set_logger"
    /\ IF ~registered
       THEN /\ registered' = TRUE
            /\ pc' = [pc EXCEPT ![t] = "set_max_level"]
            /\ UNCHANGED <<args, channels, sent, process>>
       ELSE /\ Len(sent) < MaxSent
            /\ RunHook(SetLoggerError)
            /\ pc' = [pc EXCEPT ![t] = "panicked"]
            /\ args' = [args EXCEPT ![t] = NoArgs]
            /\ UNCHANGED registered
    /\ UNCHANGED <<mine, LOGGER, maxLevel, hook, consumers, stdoutLock,
                   stderrLock, stdout, stderr, taken, last>>

\* .map(|()| log::set_max_level(filter))
SetMaxLevel(t) ==
    /\ process = "running"
    /\ pc[t] = "set_max_level"
    /\ maxLevel' = args[t].filter
    /\ pc' = [pc EXCEPT ![t] = "set_hook"]
    /\ UNCHANGED <<args, mine, LOGGER, registered, hook, channels, consumers,
                   stdoutLock, stderrLock, stdout, stderr, process, sent, taken, last>>

\* panic::set_hook(Box::new(move |panic_info| ...)), the closure capturing filter
SetHook(t) ==
    /\ process = "running"
    /\ pc[t] = "set_hook"
    /\ hook' = args[t].filter
    /\ pc' = [pc EXCEPT ![t] = "idle"]
    /\ args' = [args EXCEPT ![t] = NoArgs]
    /\ UNCHANGED <<mine, LOGGER, registered, maxLevel, channels, consumers,
                   stdoutLock, stderrLock, stdout, stderr, process, sent, taken, last>>

(***************************************************************************)
(* Logger::log(record), reached through the log crate's macros: they call  *)
(* the registered logger for a record whose level is within the maximum.   *)
(***************************************************************************)
\* LogRecord without the test of enabled
LogRecord_unfiltered(modules, sender, target, level, msg) ==
    Send(sender, OutputChannelFrom(level),
         Line(get_formatted_level(as_str(level)), msg))

LogRecord(modules, sender, target, level, msg) ==
    IF enabled(modules, target)
    THEN Send(sender, OutputChannelFrom(level),
              Line(get_formatted_level(as_str(level)), msg))
    ELSE UNCHANGED <<channels, sent>>

Log(t, target, level, msg) ==
    /\ process = "running"
    /\ pc[t] = "idle"
    /\ registered
    /\ LevelRank(level) <= LevelRank(maxLevel)
    /\ Len(sent) < MaxSent
    /\ LogRecord(LOGGER[1].modules, LOGGER[1].sender, target, level, msg)
    /\ last' = [op |-> "log", target |-> target, level |-> level, msg |-> msg]
    /\ UNCHANGED <<pc, args, mine, LOGGER, registered, maxLevel, hook, consumers,
                   stdoutLock, stderrLock, stdout, stderr, process, taken>>

(***************************************************************************)
(* An application thread panics (panic!(payload)): the installed hook runs *)
(* on that thread, which then unwinds and ends.                            *)
(***************************************************************************)
Panic(t, payload) ==
    /\ process = "running"
    /\ pc[t] = "idle"
    /\ Len(sent) < MaxSent
    /\ RunHook(payload)
    /\ pc' = [pc EXCEPT ![t] = "panicked"]
    /\ last' = [op |-> "panic", payload |-> payload]
    /\ UNCHANGED <<args, mine, LOGGER, registered, maxLevel, hook, consumers,
                   stdoutLock, stderrLock, stdout, stderr, taken>>

\* Logger::enabled(metadata), reached through the log crate's log_enabled!
EnabledCall(t, target) ==
    /\ process = "running"
    /\ pc[t] = "idle"
    /\ registered
    /\ last' = [op |-> "enabled", target |-> target,
                result |-> enabled(LOGGER[1].modules, target)]
    /\ UNCHANGED <<pc, args, mine, LOGGER, registered, maxLevel, hook, channels,
                   consumers, stdoutLock, stderrLock, stdout, stderr, process,
                   sent, taken>>

\* Logger::flush(), reached through log::logger().flush(): an empty body
FlushCall(t) ==
    /\ process = "running"
    /\ pc[t] = "idle"
    /\ registered
    /\ last' = [op |-> "flush"]
    /\ UNCHANGED <<pc, args, mine, LOGGER, registered, maxLevel, hook, channels,
                   consumers, stdoutLock, stderrLock, stdout, stderr, process,
                   sent, taken>>

\* an application thread returns from its function
Return(t) ==
    /\ process = "running"
    /\ pc[t] = "idle"
    /\ pc' = [pc EXCEPT ![t] = "returned"]
    /\ UNCHANGED <<args, mine, LOGGER, registered, maxLevel, hook, channels,
                   consumers, stdoutLock, stderrLock, stdout, stderr, process,
                   sent, taken, last>>

\* The consumer is spawned with thread::spawn and its JoinHandle dropped:
\* nothing joins it, so the process ends when the main thread has ended,
\* whatever the consumer still has to do.
ProcessExit ==
    /\ process = "running"
    /\ pc["main"] \in {"returned", "panicked"}
    /\ process' = "exited"
    /\ UNCHANGED <<pc, args, mine, LOGGER, registered, maxLevel, hook, channels,
                   consumers, stdoutLock, stderrLock, stdout, stderr, sent, taken, last>>

(***************************************************************************)
(* The thread Logger::new spawns: it locks stdout, then stderr, and then   *)
(* iterates the receiver, writing and flushing one entry at a time.        *)
(***************************************************************************)
Consumers == 1..Len(consumers)

\* let mut std_lock = std::io::stdout().lock();  (blocks while another holds it)
LockStdout(c) ==
    /\ process = "running"
    /\ consumers[c].pc = "lock_out"
    /\ stdoutLock = 0
    /\ stdoutLock' = c
    /\ consumers' = [consumers EXCEPT ![c].pc = "lock_err"]
    /\ UNCHANGED <<pc, args, mine, LOGGER, registered, maxLevel, hook, channels,
                   stderrLock, stdout, stderr, process, sent, taken, last>>

\* let mut err_lock = std::io::stderr().lock();
LockStderr(c) ==
    /\ process = "running"
    /\ consumers[c].pc = "lock_err"
    /\ stderrLock = 0
    /\ stderrLock' = c
    /\ consumers' = [consumers EXCEPT ![c].pc = "recv"]
    /\ UNCHANGED <<pc, args, mine, LOGGER, registered, maxLevel, hook, channels,
                   stdoutLock, stdout, stderr, process, sent, taken, last>>

\* Recv as a stack would serve it: the newest entry first.
Recv_newest(c) ==
    LET q == channels[c].queue IN
    /\ process = "running"
    /\ consumers[c].pc = "recv"
    /\ q # <<>>
    /\ consumers' = [consumers EXCEPT ![c] = [pc |-> "write", cur |-> <<q[Len(q)]>>]]
    /\ channels' = [channels EXCEPT ![c].queue = SubSeq(q, 1, Len(q) - 1)]
    /\ UNCHANGED <<pc, args, mine, LOGGER, registered, maxLevel, hook, stdoutLock,
                   stderrLock, stdout, stderr, process, sent, taken, last>>

\* Recv as a peek would serve it: the entry stays in the queue.
Recv_keep(c) ==
    /\ process = "running"
    /\ consumers[c].pc = "recv"
    /\ channels[c].queue # <<>>
    /\ Len(taken) < MaxSent
    /\ consumers' = [consumers EXCEPT ![c] = [pc |-> "write", cur |-> <<Head(channels[c].queue)>>]]
    /\ UNCHANGED <<pc, args, mine, LOGGER, registered, maxLevel, hook, channels,
                   stdoutLock, stderrLock, stdout, stderr, process, sent, taken, last>>

\* for (output, line) in receiver: the oldest entry of the queue; the thread
\* blocks while the queue is empty and a Sender lives.
Recv(c) ==
    /\ process = "running"
    /\ consumers[c].pc = "recv"
    /\ channels[c].queue # <<>>
    /\ consumers' = [consumers EXCEPT ![c] = [pc |-> "write", cur |-> <<Head(channels[c].queue)>>]]
    /\ channels' = [channels EXCEPT ![c].queue = Tail(@)]
    /\ UNCHANGED <<pc, args, mine, LOGGER, registered, maxLevel, hook, stdoutLock,
                   stderrLock, stdout, stderr, process, sent, taken, last>>

\* The iteration ends when the queue is empty and every Sender is dropped:
\* the closure returns, dropping the receiver and both locks.
Disconnected(c) ==
    /\ process = "running"
    /\ consumers[c].pc = "recv"
    /\ channels[c].queue = <<>>
    /\ ~channels[c].sender
    /\ consumers' = [consumers EXCEPT ![c].pc = "done"]
    /\ channels' = [channels EXCEPT ![c].receiver = FALSE]
    /\ stdoutLock' = 0
    /\ stderrLock' = 0
    /\ UNCHANGED <<pc, args, mine, LOGGER, registered, maxLevel, hook, stdout,
                   stderr, process, sent, taken, last>>

\* WriteLine with both arms writing to the standard output
WriteLine_stdout(c, ok) ==
    LET e == consumers[c].cur[1] IN
    /\ process = "running"
    /\ consumers[c].pc = "write"
    /\ stdout' = IF ok THEN Append(stdout, e.line) ELSE stdout
    /\ taken' = Append(taken, [entry |-> e, ok |-> ok])
    /\ consumers' = [consumers EXCEPT ![c].pc = "flush"]
    /\ UNCHANGED <<pc, args, mine, LOGGER, registered, maxLevel, hook, channels,
                   stdoutLock, stderrLock, stderr, process, sent, last>>

\* WriteLine with the result unwrapped: a refused write ends the thread,
\* which drops the receiver and both locks
WriteLine_abort(c, ok) ==
    LET e == consumers[c].cur[1] IN
    /\ process = "running"
    /\ consumers[c].pc = "write"
    /\ IF e.output = "Standard"
       THEN /\ stdout' = IF ok THEN Append(stdout, e.line) ELSE stdout
            /\ UNCHANGED stderr
       ELSE /\ stderr' = IF ok THEN Append(stderr, e.line) ELSE stderr
            /\ UNCHANGED stdout
    /\ taken' = Append(taken, [entry |-> e, ok |-> ok])
    /\ IF ok
       THEN /\ consumers' = [consumers EXCEPT ![c].pc = "flush"]
            /\ UNCHANGED <<channels, stdoutLock, stderrLock>>
       ELSE /\ consumers' = [consumers EXCEPT ![c] = [pc |-> "done", cur |-> <<>>]]
            /\ channels' = [channels EXCEPT ![c].receiver = FALSE]
            /\ stdoutLock' = 0
            /\ stderrLock' = 0
    /\ UNCHANGED <<pc, args, mine, LOGGER, registered, maxLevel, hook,
                   process, sent, last>>

\* match output { Standard => writeln!(std_lock, "{line}").ok(), Error =>
\* writeln!(err_lock, "{line}").ok() }: the write may fail, and the result
\* is discarded.
WriteLine(c, ok) ==
    LET e == consumers[c].cur[1] IN
    /\ process = "running"
    /\ consumers[c].pc = "write"
    /\ IF e.output = "Standard"
       THEN /\ stdout' = IF ok THEN Append(stdout, e.line) ELSE stdout
            /\ UNCHANGED stderr
       ELSE /\ stderr' = IF ok THEN Append(stderr, e.line) ELSE stderr
            /\ UNCHANGED stdout
    /\ taken' = Append(taken, [entry |-> e, ok |-> ok])
    /\ consumers' = [consumers EXCEPT ![c].pc = "flush"]
    /\ UNCHANGED <<pc, args, mine, LOGGER, registered, maxLevel, hook, channels,
                   stdoutLock, stderrLock, process, sent, last>>

\* std_lock.flush().ok() / err_lock.flush().ok(): the line went to the stream
\* with the write (stdout is line buffered, stderr unbuffered); the result
\* is discarded.
FlushLine(c) ==
    /\ process = "running"
    /\ consumers[c].pc = "flush"
    /\ consumers' = [consumers EXCEPT ![c] = [pc |-> "recv", cur |-> <<>>]]
    /\ UNCHANGED <<pc, args, mine, LOGGER, registered, maxLevel, hook, channels,
                   stdoutLock, stderrLock, stdout, stderr, process, sent, taken, last>>

ConsumerStep(c) ==
    \/ LockStdout(c)
    \/ LockStderr(c)
    \/ Recv(c)
    \/ Disconnected(c)
    \/ \E ok \in BOOLEAN : WriteLine(c, ok)
    \/ FlushLine(c)

(***************************************************************************)
(* The pipeline specification: two application threads that call init(),   *)
(* log and panic in any interleaving with each other and the consumers.    *)
(***************************************************************************)
Next ==
    \/ \E t \in Threads, f \in PipeFilters, m \in PipeModules : LoggerNew(t, f, m)
    \/ \E t \in Threads : OnceLockSet(t)
    \/ \E t \in Threads : SetLogger(t)
    \/ \E t \in Threads : SetMaxLevel(t)
    \/ \E t \in Threads : SetHook(t)
    \/ \E t \in Threads, g \in PipeTargets, l \in PipeLevels :
          Log(t, g, l, PipeMessage(t))
    \/ \E t \in Threads, p \in PipePayloads : Panic(t, p)
    \/ \E t \in Threads : Return(t)
    \/ ProcessExit
    \/ \E c \in Consumers : ConsumerStep(c)

Spec == Init /\ [][Next]_vars

\* The operating system schedules every runnable thread: a consumer that can
\* take a step eventually takes one, and a thread inside init() goes on to
\* its next statement.  Whether and when an application thread makes its
\* next call, panics or returns is the application's choice.
InitStep(t) == OnceLockSet(t) \/ SetLogger(t) \/ SetMaxLevel(t) \/ SetHook(t)

Fairness ==
    /\ \A c \in 1..MaxInits : WF_vars(c \in Consumers /\ ConsumerStep(c))
    /\ \A t \in Threads : WF_vars(InitStep(t))

SpecFair == Spec /\ Fairness

(***************************************************************************)
(* The sink specification: the main thread calls init() once, with any     *)
(* threshold and filter list, and then logs records of every level,        *)
(* flushes and panics with every kind of payload, while the consumer runs. *)
(***************************************************************************)
NextSink ==
    \/ /\ LOGGER = <<>>
       /\ \E f \in SinkFilters, m \in SinkModules : LoggerNew("main", f, m)
    \/ OnceLockSet("main")
    \/ SetLogger("main")
    \/ SetMaxLevel("main")
    \/ SetHook("main")
    \/ \E g \in SinkTargets, l \in Levels, m \in SinkMessages : Log("main", g, l, m)
    \/ \E p \in SinkPayloads : Panic("main", p)
    \/ FlushCall("main")
    \/ Return("main")
    \/ ProcessExit
    \/ \E c \in Consumers : ConsumerStep(c)

SpecSink == Init /\ [][NextSink]_vars

SpecSinkFair == SpecSink /\ Fairness

(***************************************************************************)
(* The sequential specification: the main thread alone makes every call,   *)
(* one after the other, init() any number of times within the bounds.      *)
(***************************************************************************)
NextSeq ==
    \/ \E f \in PipeFilters, m \in PipeModules : LoggerNew("main", f, m)
    \/ OnceLockSet("main")
    \/ SetLogger("main")
    \/ SetMaxLevel("main")
    \/ SetHook("main")
    \/ \E g \in PipeTargets, l \in PipeLevels : Log("main", g, l, PipeMessage("main"))
    \/ Return("main")
    \/ ProcessExit
    \/ \E c \in Consumers : ConsumerStep(c)

SpecSeq == Init /\ [][NextSeq]_vars

SpecSeqFair == SpecSeq /\ Fairness

(***************************************************************************)
(* The filter specification: init() with every filter list in the bounds,  *)
(* then Logger::enabled on every target in the bounds.                     *)
(***************************************************************************)
NextFilter ==
    \/ /\ LOGGER = <<>>
       /\ \E m \in WideModules : LoggerNew("main", "Trace", m)
    \/ OnceLockSet("main")
    \/ SetLogger("main")
    \/ SetMaxLevel("main")
    \/ SetHook("main")
    \/ /\ last.op # "enabled"
       /\ \E g \in WideTargets : EnabledCall("main", g)

SpecFilter == Init /\ [][NextFilter]_vars

(***************************************************************************)
(* The level specification: get_formatted_level applied to the names the   *)
(* program passes (the five levels' names and "PANIC") and to every other  *)
(* name in the bounds.                                                     *)
(***************************************************************************)
LevelNames ==
    {as_str(l) : l \in Levels} \cup {PANIC, <<"i", "n", "f", "o">>}
        \cup StringsUpTo(MaxLevelLen)

FormatLevel(name) ==
    /\ last' = [op |-> "get_formatted_level", level |-> name,
                tag |-> get_formatted_level(name)]
    /\ UNCHANGED <<pc, args, mine, LOGGER, registered, maxLevel, hook, channels,
                   consumers, stdoutLock, stderrLock, stdout, stderr, process,
                   sent, taken>>

NextLevel == \E name \in LevelNames : FormatLevel(name)

SpecLevel == Init /\ [][NextLevel]_vars

(***************************************************************************)
(* What the histories say.                                                 *)
(***************************************************************************)
\* the lines of the writes to one stream that succeeded, in the order made
LinesTo(output) ==
    LET w == SelectSeq(taken, LAMBDA x : x.ok /\ x.entry.output = output)
    IN  [i \in 1..Len(w) |-> w[i].entry.line]

TakenEntries == [i \in 1..Len(taken) |-> taken[i].entry]

\* the entry a consumer has received and not yet written
Pending(c) == IF consumers[c].pc = "write" THEN consumers[c].cur ELSE <<>>

(***************************************************************************)
(* C1: the consumer writes the lines, over both streams together, in the   *)
(* order in which their enqueues completed: of two writes, the earlier is  *)
(* of the entry enqueued earlier, whichever stream each goes to, and each  *)
(* stream holds the lines written to it in that order.                     *)
(***************************************************************************)
C1_WriteOrderIsEnqueueOrder ==
    /\ \A k \in 1..Len(sent) : sent[k].id = k
    /\ \A i, j \in 1..Len(taken) :
          i < j => taken[i].entry.id < taken[j].entry.id
    /\ stdout = LinesTo("Standard")
    /\ stderr = LinesTo("Error")

\* two threads have logged, one line to each stream, and both are written
C1_Witness ==
    /\ Len(taken) >= 2
    /\ taken[1].entry.line.msg # taken[2].entry.line.msg
    /\ taken[1].entry.output # taken[2].entry.output
    /\ stdout # <<>>
    /\ stderr # <<>>

(***************************************************************************)
(* C2: every enqueued entry is taken from the queue at most once and none  *)
(* is skipped: the entries written so far are a prefix of the entries      *)
(* enqueued so far, and every enqueued entry is in exactly one place:      *)
(* written, received and about to be written, or still in the queue of the *)
(* singleton's channel.  A stream holds one line per write that succeeded. *)
(***************************************************************************)
C2_ConsumedExactlyOnce ==
    /\ Len(taken) <= Len(sent)
    /\ \A i \in 1..Len(taken) : taken[i].entry = sent[i]
    /\ IF LOGGER = <<>>
       THEN sent = <<>>
       ELSE sent = TakenEntries \o Pending(LOGGER[1].sender)
                      \o channels[LOGGER[1].sender].queue
    /\ \A c \in Consumers :
          (LOGGER = <<>> \/ c # LOGGER[1].sender) =>
              channels[c].queue = <<>> /\ consumers[c].cur = <<>>
    /\ Len(stdout) + Len(stderr) = Cardinality({i \in 1..Len(taken) : taken[i].ok})

\* two entries were enqueued, taken and written
C2_Witness ==
    /\ Len(sent) = 2
    /\ Len(taken) = 2
    /\ taken[1].ok
    /\ taken[2].ok
    /\ \A c \in Consumers : consumers[c].pc # "flush"

(***************************************************************************)
(* C3: no message is lost: every enqueued entry is eventually written and  *)
(* flushed by the consumer, under fair scheduling, also when the thread    *)
(* that enqueued it ends right after.  (A write counts as made whatever    *)
(* the stream answered.)                                                   *)
(***************************************************************************)
Flushed(i) ==
    \/ Len(taken) > i
    \/ Len(taken) = i /\ \A c \in Consumers : consumers[c].pc # "flush"

C3_NoMessageLost == \A i \in 1..MaxSent : (Len(sent) >= i) ~> Flushed(i)

(***************************************************************************)
(* C4: a call of init() after one has succeeded is a silent no-op: it      *)
(* returns to its caller without a panic and changes none of the           *)
(* singleton, the registration, the maximum level and the panic hook.      *)
(* (In SpecSeq the hook is installed only when the first call returns, so  *)
(* every later init statement belongs to a later call.)                    *)
(***************************************************************************)
InInit(t) == pc[t] \in {"set", "set_logger", "set_max_level", "set_hook"}

C4_LaterInitIsSilentNoOp ==
    [][(hook # "Default" /\ InInit("main")) =>
          /\ pc'["main"] # "panicked"
          /\ UNCHANGED <<LOGGER, registered, maxLevel, hook>>]_vars

(***************************************************************************)
(* C5: of two calls of init() with different arguments the first governs:  *)
(* when the first call returns, the singleton's filter list, the maximum   *)
(* level and the threshold the hook tests are its arguments, and from then *)
(* on none of them changes, whatever is called.                            *)
(***************************************************************************)
C5_FirstInitGoverns ==
    [][/\ (pc["main"] = "set_hook" /\ pc'["main"] = "idle") =>
             /\ LOGGER' # <<>>
             /\ LOGGER'[1].modules = args["main"].modules
             /\ maxLevel' = args["main"].filter
             /\ hook' = args["main"].filter
       /\ hook # "Default" => UNCHANGED <<LOGGER, registered, maxLevel, hook>>]_vars

\* a second call, with another threshold and another filter list, has ended
C5_Witness ==
    /\ last.op = "init"
    /\ pc["main"] = "panicked"
    /\ hook # "Default"
    /\ last.filter # hook
    /\ last.filter # maxLevel
    /\ last.modules # LOGGER[1].modules

(***************************************************************************)
(* C6: however many times init() is called, one consumer thread is         *)
(* created: a call that loses spawns none, and leaves no thread waiting    *)
(* for the stream locks the singleton's consumer holds.                    *)
(***************************************************************************)
C6_OneConsumerThread ==
    /\ Len(consumers) <= 1
    /\ \A c \in Consumers :
          ~ /\ LOGGER # <<>>
            /\ c # LOGGER[1].sender
            /\ consumers[c].pc = "lock_out"
            /\ stdoutLock = LOGGER[1].sender

(***************************************************************************)
(* C7: enabled(target) is true exactly when the filter list is empty, or   *)
(* the target is one of its entries, or the target begins with an entry    *)
(* followed by "::"; so an entry passes itself and "entry::x::y", and does *)
(* not pass "entryother"; and the call changes no state.                   *)
(***************************************************************************)
BeginsWithEntry(target, entry) ==
    /\ Len(target) >= Len(entry) + 2
    /\ \A k \in 1..Len(entry) : target[k] = entry[k]
    /\ target[Len(entry) + 1] = ":"
    /\ target[Len(entry) + 2] = ":"

Passes(modules, target) ==
    \/ modules = <<>>
    \/ \E i \in 1..Len(modules) :
          target = modules[i] \/ BeginsWithEntry(target, modules[i])

C7_EnabledIffMatch ==
    /\ [](last.op = "enabled" =>
            /\ last.result = Passes(LOGGER[1].modules, last.target)
            /\ \A i \in 1..Len(LOGGER[1].modules) :
                  LET entry == LOGGER[1].modules[i] IN
                  /\ enabled(LOGGER[1].modules, entry)
                  /\ enabled(LOGGER[1].modules,
                             entry \o <<":", ":", "x", ":", ":", "y">>)
                  /\ ~enabled(<<entry>>, entry \o <<"o", "t", "h", "e", "r">>))
    /\ [][last'.op = "enabled" /\ last.op # "enabled" =>
            UNCHANGED <<pc, args, mine, LOGGER, registered, maxLevel, hook,
                        channels, consumers, stdoutLock, stderrLock, stdout,
                        stderr, process, sent, taken>>]_vars

\* enabled was asked about a target that continues an entry of the list
\* without "::", and answered false
C7_Witness ==
    /\ last.op = "enabled"
    /\ ~last.result
    /\ \E i \in 1..Len(LOGGER[1].modules) :
          /\ LOGGER[1].modules[i] # <<>>
          /\ Len(last.target) > Len(LOGGER[1].modules[i])
          /\ starts_with(last.target, LOGGER[1].modules[i])

(***************************************************************************)
(* C8: log(record) for a target that enabled refuses leaves the queue and  *)
(* both streams as they are; for a target that enabled passes it appends   *)
(* one entry to the queue, with the record's message and the channel of    *)
(* its level.                                                              *)
(***************************************************************************)
\* a step that is a call of log: the call is recorded, and either it is
\* another call than the one before or it enqueued
LogStep == last'.op = "log" /\ (last' # last \/ sent' # sent)

C8_LogFrame ==
    [][LogStep =>
          LET c == LOGGER[1].sender IN
          IF Passes(LOGGER[1].modules, last'.target)
          THEN /\ Len(sent') = Len(sent) + 1
               /\ channels' = [channels EXCEPT
                                  ![c].queue = Append(@, sent'[Len(sent')])]
               /\ sent'[Len(sent')].line.msg = last'.msg
               /\ sent'[Len(sent')].output =
                     (IF last'.level = "Error" THEN "Error" ELSE "Standard")
               /\ UNCHANGED <<stdout, stderr, taken>>
          ELSE UNCHANGED <<channels, sent, stdout, stderr, taken>>]_vars

\* an Error record of a module outside the filter list was logged: nothing
\* was enqueued
C8_Witness ==
    /\ last = [op |-> "log", target |-> apple, level |-> "Error", msg |-> "x"]
    /\ LOGGER[1].modules = <<other, app>>
    /\ sent = <<>>

(***************************************************************************)
(* C9: the channel of a level is Error for Error and Standard for Trace,   *)
(* Debug, Info and Warn; an entry is enqueued with the channel of its      *)
(* level, and its line is written to that channel's stream only.           *)
(***************************************************************************)
TagOf(level) == get_formatted_level(as_str(level)).text

StandardTags == {TagOf(l) : l \in {"Trace", "Debug", "Info", "Warn"}}

ErrorTags == {TagOf("Error"), get_formatted_level(PANIC).text}

C9_SeverityToChannel ==
    /\ OutputChannelFrom("Error") = "Error"
    /\ \A l \in {"Trace", "Debug", "Info", "Warn"} : OutputChannelFrom(l) = "Standard"
    /\ \A i \in 1..Len(sent) :
          /\ sent[i].line.tag.text \in StandardTags => sent[i].output = "Standard"
          /\ sent[i].line.tag.text \in ErrorTags => sent[i].output = "Error"
    /\ \A i \in 1..Len(stdout) : stdout[i].tag.text \in StandardTags
    /\ \A i \in 1..Len(stderr) : stderr[i].tag.text \in ErrorTags

\* an Error record is on the error output and a Warn record on the standard one
C9_Witness ==
    /\ \E i \in 1..Len(stderr) : stderr[i].tag.text = TagOf("Error")
    /\ \E i \in 1..Len(stdout) : stdout[i].tag.text = TagOf("Warn")

(***************************************************************************)
(* C10: after init() with a threshold other than Off, a panic whose        *)
(* payload is a string leads to one line with the payload's text and the   *)
(* PANIC tag on the error output and none on the standard output, whatever *)
(* the filter list.  (A write counts as made whatever the stream           *)
(* answered.)                                                              *)
(***************************************************************************)
PanicWrites(text, output) ==
    {i \in 1..Len(taken) :
        /\ taken[i].entry.output = output
        /\ taken[i].entry.line.tag = get_formatted_level(PANIC)
        /\ taken[i].entry.line.msg = text}

C10_PanicLineAppears ==
    \A p \in {q \in SinkPayloads : q.kind \in {"str", "String"}} :
        (last = [op |-> "panic", payload |-> p] /\ hook \notin {"Default", "Off"})
            ~> (/\ Cardinality(PanicWrites(p.text, "Error")) = 1
                /\ PanicWrites(p.text, "Standard") = {})

\* what the hook does enqueue: one entry for the error output, with the
\* PANIC tag and the payload's text, whatever the filter list
C10_HookEnqueuesOnce ==
    [][\A p \in {q \in SinkPayloads : q.kind \in {"str", "String"}} :
          (Panic("main", p) /\ hook \notin {"Default", "Off"}) =>
             /\ Len(sent') = Len(sent) + 1
             /\ sent'[Len(sent')].output = "Error"
             /\ sent'[Len(sent')].line.tag = get_formatted_level(PANIC)
             /\ sent'[Len(sent')].line.msg = p.text]_vars

(***************************************************************************)
(* C11: with the threshold Off the hook returns at once on every panic:    *)
(* the step of a thread that panics while the installed hook is the one    *)
(* that captured Off enqueues nothing and writes nothing, and as long as   *)
(* that hook is installed no PANIC entry exists anywhere.                  *)
(***************************************************************************)
\* a step in which an application thread panics (so the hook has run)
Panics == \E t \in Threads : pc[t] # "panicked" /\ pc'[t] = "panicked"

C11_OffHookEnqueuesNothing ==
    /\ [](hook = "Off" =>
            /\ \A i \in 1..Len(sent) : sent[i].line.tag # get_formatted_level(PANIC)
            /\ \A i \in 1..Len(stderr) : stderr[i].tag # get_formatted_level(PANIC)
            /\ \A i \in 1..Len(stdout) : stdout[i].tag # get_formatted_level(PANIC))
    /\ [][Panics /\ hook = "Off" =>
            UNCHANGED <<channels, sent, stdout, stderr, taken>>]_vars

\* the main thread has panicked under the hook that captured Off
C11_Witness ==
    /\ last.op = "panic"
    /\ pc["main"] = "panicked"
    /\ hook = "Off"
    /\ LOGGER # <<>>

(***************************************************************************)
(* C12: a panic whose payload is neither a &str nor a String, under a      *)
(* threshold other than Off, enqueues for the error output a line whose    *)
(* message is exactly "A panic occurred! Exiting...".                      *)
(***************************************************************************)
C12_FallbackMessage ==
    [][(/\ Panics
        /\ last'.op = "panic"
        /\ last'.payload.kind = "other"
        /\ hook \notin {"Default", "Off"}) =>
          /\ Len(sent') = Len(sent) + 1
          /\ sent'[Len(sent')].output = "Error"
          /\ sent'[Len(sent')].line.msg = "A panic occurred! Exiting..."]_vars

\* what the hook does enqueue for such a payload: one entry for the error
\* output with the PANIC tag and the text of lib.rs:168
C12_FallbackAsCoded ==
    [][(/\ Panics
        /\ last'.op = "panic"
        /\ last'.payload.kind = "other"
        /\ hook \notin {"Default", "Off"}) =>
          /\ Len(sent') = Len(sent) + 1
          /\ sent'[Len(sent')].output = "Error"
          /\ sent'[Len(sent')].line.tag = get_formatted_level(PANIC)
          /\ sent'[Len(sent')].line.msg = "A panic occurred! Exitting..."]_vars

(***************************************************************************)
(* C13: a write that the stream refuses ends nothing: the consumer that    *)
(* made it goes on to the flush and back to the receive, with its channel  *)
(* and both locks as they were; an entry enqueued behind the refused one   *)
(* is written in its turn while the process runs; and each stream holds    *)
(* the lines whose write succeeded, in queue order.  (The flush's result   *)
(* is discarded in the same way: FlushLine has one outcome.)               *)
(***************************************************************************)
\* a step in which a consumer's write is refused
RefusedWrite == Len(taken') = Len(taken) + 1 /\ ~taken'[Len(taken')].ok

C13_WriteFailureIsolated ==
    /\ [][RefusedWrite =>
            /\ \E c \in Consumers :
                  /\ consumers[c].pc = "write"
                  /\ consumers' = [consumers EXCEPT ![c].pc = "flush"]
            /\ UNCHANGED <<channels, stdoutLock, stderrLock>>]_vars
    /\ [][\A c \in Consumers :
            (consumers[c].pc = "flush" /\ consumers'[c] # consumers[c]) =>
                consumers'[c] = [pc |-> "recv", cur |-> <<>>]]_vars
    /\ \A i \in 1..MaxSent :
          (Len(taken) >= i /\ ~taken[i].ok /\ Len(sent) > i)
              ~> (Len(taken) > i \/ process # "running")
    /\ [](/\ stdout = LinesTo("Standard")
          /\ stderr = LinesTo("Error")
          /\ \A i \in 1..Len(taken) : taken[i].entry = sent[i])

\* the first entry's write was refused, the second entry's succeeded and
\* its line is on its stream
C13_Witness ==
    /\ Len(taken) = 2
    /\ ~taken[1].ok
    /\ taken[2].ok
    /\ Len(stdout) + Len(stderr) = 1
    /\ \E c \in Consumers : consumers[c].pc = "recv"

(***************************************************************************)
(* C14: a producer never waits for the consumer: in every state in which   *)
(* an application thread is about to call, whatever the queue holds and    *)
(* wherever the consumer is (waiting for a lock or for an entry, not yet   *)
(* scheduled, in a write or a flush), log(record) and flush() can be taken *)
(* as the very next step; and flush() changes no state.                    *)
(***************************************************************************)
C14_ProducerNeverWaits ==
    /\ [](\A t \in Threads :
            (process = "running" /\ pc[t] = "idle" /\ registered) =>
               /\ ENABLED FlushCall(t)
               /\ Len(sent) < MaxSent =>
                     \A g \in SinkTargets, l \in Levels, m \in SinkMessages :
                        LevelRank(l) <= LevelRank(maxLevel) => ENABLED Log(t, g, l, m))
    /\ [][last'.op = "flush" /\ last' # last =>
            UNCHANGED <<pc, args, mine, LOGGER, registered, maxLevel, hook,
                        channels, consumers, stdoutLock, stderrLock, stdout,
                        stderr, process, sent, taken>>]_vars

\* flush was called after a log that found an entry queued and the consumer
\* in the middle of a write
C14_Witness ==
    /\ last.op = "flush"
    /\ LOGGER # <<>>
    /\ consumers[LOGGER[1].sender].pc = "write"
    /\ channels[LOGGER[1].sender].queue # <<>>
    /\ Len(sent) = 2

(***************************************************************************)
(* C15: a consumer's loop ends only when every Sender of its channel is    *)
(* dropped; the consumer of the registered sink, whose Sender the          *)
(* singleton keeps, never ends while the process runs, and it waits only   *)
(* when its queue is empty: whenever its queue holds an entry it can take  *)
(* its next step.                                                          *)
(***************************************************************************)
\* the consumer thread of the sink that init() registered
RegisteredConsumer == LOGGER[1].sender

LoopEndsOnlyDisconnected ==
    \A c \in Consumers :
        (consumers[c].pc # "done" /\ consumers'[c].pc = "done") =>
            ~channels[c].sender /\ channels[c].queue = <<>>

C15_ConsumerRunsAndWaitsOnlyOnEmpty ==
    /\ [][LoopEndsOnlyDisconnected]_vars
    /\ []((registered /\ process = "running") =>
            /\ channels[RegisteredConsumer].sender
            /\ channels[RegisteredConsumer].receiver
            /\ consumers[RegisteredConsumer].pc # "done"
            /\ \/ ENABLED ConsumerStep(RegisteredConsumer)
               \/ channels[RegisteredConsumer].queue = <<>>)

\* the part that holds whatever is called: the loop ends only on
\* disconnection, and the registered sink's consumer never ends and never
\* loses its channel while the process runs
C15_RegisteredConsumerNeverEnds ==
    /\ [][LoopEndsOnlyDisconnected]_vars
    /\ []((registered /\ process = "running") =>
            /\ channels[RegisteredConsumer].sender
            /\ channels[RegisteredConsumer].receiver
            /\ consumers[RegisteredConsumer].pc # "done")

(***************************************************************************)
(* C16: when a send fails because the receiver is gone, log(record) and    *)
(* the hook return normally and only the entry is dropped.  The send of    *)
(* the sink and of the hook is on the singleton's channel, and what can be *)
(* said of the code is that this send never fails: the receiver of that    *)
(* channel lives as long as the process runs, so no reachable state has    *)
(* the case the claim is about.                                            *)
(***************************************************************************)
C16_SingletonReceiverLives ==
    LOGGER # <<>> => channels[LOGGER[1].sender].receiver

(***************************************************************************)
(* C17: the tag of every level name is the name in square brackets, padded *)
(* with spaces on the right to at least 7 characters; the tag of "INFO" is *)
(* "[INFO]" followed by two spaces; and "ERROR", "PANIC" and every name    *)
(* that is not one of the five levels' get the same bold red style.        *)
(***************************************************************************)
INFO == as_str("Info")

\* text is "[name]" followed by spaces only, as many as bring it to 7
BracketedAndPadded(name, text) ==
    LET n == Len(name) + 2 IN
    /\ Len(text) = (IF n < 7 THEN 7 ELSE n)
    /\ text[1] = "["
    /\ \A k \in 1..Len(name) : text[k + 1] = name[k]
    /\ text[n] = "]"
    /\ \A k \in (n + 1)..Len(text) : text[k] = " "

SameBoldRed(name, style) ==
    name \notin {as_str(l) : l \in {"Trace", "Debug", "Info", "Warn"}} =>
        style = get_formatted_level(as_str("Error")).style /\ style = "red bold"

C17_LevelTag ==
    last.op = "get_formatted_level" =>
        /\ BracketedAndPadded(last.level, last.tag.text)
        /\ last.level = INFO =>
              last.tag.text = <<"[", "I", "N", "F", "O", "]", " ", " ">>
        /\ SameBoldRed(last.level, last.tag.style)

\* C17 as amended: the tag of "INFO" is "[INFO]" followed by one space,
\* 7 characters in all
C17_LevelTagOneSpace ==
    last.op = "get_formatted_level" =>
        /\ BracketedAndPadded(last.level, last.tag.text)
        /\ last.level = INFO =>
              last.tag.text = <<"[", "I", "N", "F", "O", "]", " ">>
        /\ SameBoldRed(last.level, last.tag.style)

\* the tag of "INFO" has been rendered
C17_Witness ==
    /\ last.op = "get_formatted_level"
    /\ last.level = INFO
    /\ Len(last.tag.text) = 7

(***************************************************************************)
(* C18: the hook never fails: in every reachable state in which init()'s   *)
(* hook is installed the singleton is set, so LOGGER.get().unwrap() in the *)
(* hook succeeds and no panic inside the hook aborts the process, whatever *)
(* the interleaving of the threads' init() calls and panics.               *)
(***************************************************************************)
C18_HookFindsSingleton ==
    /\ hook # "Default" => LOGGER # <<>>
    /\ process # "aborted"

\* a thread panicked under an installed hook, which enqueued its line, while
\* the other thread was inside init()
C18_Witness ==
    /\ last.op = "panic"
    /\ hook \notin {"Default", "Off"}
    /\ \E t \in Threads : InInit(t)
    /\ \E i \in 1..Len(sent) : sent[i].line.tag = get_formatted_level(PANIC)

(***************************************************************************)
(* C19: when two threads call init() at the same time with different       *)
(* arguments, the configuration in effect comes from one of the two calls: *)
(* when one call returns while the other is still inside init(), the       *)
(* singleton's filter list, the maximum level and the threshold of the     *)
(* installed hook are all three the arguments of the same call.            *)
(***************************************************************************)
FromOneCall(call) ==
    /\ LOGGER'[1].modules = call.modules
    /\ maxLevel' = call.filter
    /\ hook' = call.filter

C19_ConfigurationFromOneCall ==
    [][\A t, u \in Threads :
          (t # u /\ InInit(u) /\ pc[t] = "set_hook" /\ pc'[t] = "idle") =>
              FromOneCall(args[t]) \/ FromOneCall(args[u])]_vars
=============================================================================
